---- MODULE Spec2Model ----
(***************************************************************************)
(* Model of game.py: the driver loop of an LLM-played Diplomacy game and   *)
(* its two response interpreters, get_ollama_orders and                    *)
(* get_ollama_message.                                                     *)
(*                                                                         *)
(* Text is modelled at token level.  A Python str is a record              *)
(*   [words, wide, outer]                                                  *)
(* words: the whitespace-separated words, wide: some inner whitespace run  *)
(* is longer than one blank, outer: leading or trailing whitespace.  A raw *)
(* generator response is a sequence of tokens: JSON punctuation, JSON      *)
(* string literals, numbers, null, unquoted prose and markdown fences.     *)
(***************************************************************************)
EXTENDS Integers, Sequences, FiniteSets, TLC

VARIABLES
    pc,              \* position of main: "loop", "msg", "orders", "process", "save", "done", "crashed"
    phase,           \* game.get_current_phase()
    is_game_done,    \* game.is_game_done
    board,           \* engine state: orderable locations per power, legal orders per location
    turn_order,      \* powers still to be asked for a message (shuffled)
    order_queue,     \* powers still to be asked for orders
    PHASE_MESSAGES,  \* module global: phase name -> accepted messages
    DIALOGUE_LOG,    \* module global: the audit log
    sent,            \* Message objects handed to game.add_message, in call order
    submitted,       \* power -> orders handed to game.set_orders this phase
    processed,       \* number of game.process() calls
    saved,           \* number of times the two result files were written
    last,            \* the last interpreter call: function, power, input, outcome, return value
    calls            \* the calls main has made in the current iteration of its loop, in order

vars == <<pc, phase, is_game_done, board, turn_order, order_queue, PHASE_MESSAGES,
          DIALOGUE_LOG, sent, submitted, processed, saved, last, calls>>

-----------------------------------------------------------------------------
(* Python strings *)

Str(ws) == [words |-> ws, wide |-> FALSE, outer |-> FALSE]
Wide(ws) == [words |-> ws, wide |-> TRUE, outer |-> FALSE]
Padded(ws) == [words |-> ws, wide |-> FALSE, outer |-> TRUE]
EmptyStr == Str(<<>>)

\* str.strip(): leading and trailing whitespace removed
Strip(s) == [s EXCEPT !.outer = FALSE]

\* re.sub(r'\s+', ' ', o.strip('"\' ')): every whitespace run becomes one blank
Canonical(s) == [s EXCEPT !.wide = FALSE, !.outer = FALSE]

\* str.split()
Split(s) == s.words

\* Python truthiness of a str
StrTruthy(s) == s.words # <<>> \/ s.outer

-----------------------------------------------------------------------------
(* Vocabulary of the order grammar *)

UnitTypes == {"A", "F"}
Locations == {"PAR", "MAR", "BUR", "MUN", "BER"}
VerbInitials == {"H", "S", "R", "D", "C", "HOLD"}

\* re.match(order_pattern, x): the pattern is anchored at the start only, so a
\* string matches when a prefix of it is  (A|F) LOC - LOC  or  (A|F) LOC [HSRDC]
MatchLen(ws, p) ==
    IF /\ Len(ws) >= p + 2
       /\ ws[p] \in UnitTypes
       /\ ws[p + 1] \in Locations
    THEN IF ws[p + 2] = "-" /\ Len(ws) >= p + 3 /\ ws[p + 3] \in Locations THEN 4
         ELSE IF ws[p + 2] \in VerbInitials THEN 3
         ELSE 0
    ELSE 0

MatchesOrderPattern(s) == MatchLen(s.words, 1) > 0

\* re.findall(order_pattern, text) on one piece of text; the pattern has groups,
\* so each hit is the tuple of its groups and m[0] is group 1, the unit letter
RECURSIVE FindAllIn(_, _)
FindAllIn(ws, p) ==
    IF p > Len(ws) THEN <<>>
    ELSE IF MatchLen(ws, p) > 0
         THEN <<Str(<<ws[p]>>)>> \o FindAllIn(ws, p + MatchLen(ws, p))
         ELSE FindAllIn(ws, p + 1)

-----------------------------------------------------------------------------
(* Tokens of a raw response and JSON values *)

Tok(t, s, n) == [t |-> t, s |-> s, n |-> n]
LBrack == Tok("[", EmptyStr, 0)
RBrack == Tok("]", EmptyStr, 0)
LBrace == Tok("{", EmptyStr, 0)
RBrace == Tok("}", EmptyStr, 0)
Comma == Tok(",", EmptyStr, 0)
Colon == Tok(":", EmptyStr, 0)
Null == Tok("null", EmptyStr, 0)
Fence == Tok("fence", EmptyStr, 0)
Lit(s) == Tok("str", s, 0)          \* a JSON string literal
Num(n) == Tok("num", EmptyStr, n)   \* a JSON number, in tenths
Prose(s) == Tok("text", s, 0)       \* unquoted text

JVal(k, s, n, items) == [k |-> k, s |-> s, n |-> n, items |-> items]
JStr(s) == JVal("str", s, 0, <<>>)
JNum(n) == JVal("num", EmptyStr, n, <<>>)
JNull == JVal("null", EmptyStr, 0, <<>>)
JList(items) == JVal("list", EmptyStr, 0, items)
JDict(items) == JVal("dict", EmptyStr, 0, items)   \* items: <<key, value>> pairs in insertion order

NoParse == [ok |-> FALSE, v |-> JNull, next |-> 0]

\* dict[key] = value: a repeated key keeps its place and takes the new value
DictPut(items, key, v) ==
    IF \E i \in 1..Len(items) : items[i][1] = key
    THEN [i \in 1..Len(items) |-> IF items[i][1] = key THEN <<key, v>> ELSE items[i]]
    ELSE Append(items, <<key, v>>)

RECURSIVE ParseValue(_, _)
RECURSIVE ParseElems(_, _, _)
RECURSIVE ParseMembers(_, _, _)
RECURSIVE AfterElem(_, _, _)
RECURSIVE AfterMember(_, _, _, _)

ParseValue(toks, i) ==
    IF i > Len(toks) THEN NoParse
    ELSE CASE toks[i].t = "str" -> [ok |-> TRUE, v |-> JStr(toks[i].s), next |-> i + 1]
           [] toks[i].t = "num" -> [ok |-> TRUE, v |-> JNum(toks[i].n), next |-> i + 1]
           [] toks[i].t = "null" -> [ok |-> TRUE, v |-> JNull, next |-> i + 1]
           [] toks[i].t = "[" ->
                IF i + 1 <= Len(toks) /\ toks[i + 1].t = "]"
                THEN [ok |-> TRUE, v |-> JList(<<>>), next |-> i + 2]
                ELSE ParseElems(toks, i + 1, <<>>)
           [] toks[i].t = "{" ->
                IF i + 1 <= Len(toks) /\ toks[i + 1].t = "}"
                THEN [ok |-> TRUE, v |-> JDict(<<>>), next |-> i + 2]
                ELSE ParseMembers(toks, i + 1, <<>>)
           [] OTHER -> NoParse

\* the elements of an array, from token i on
ParseElems(toks, i, acc) == AfterElem(toks, acc, ParseValue(toks, i))

\* r: the element just parsed; a comma or the closing bracket must follow
AfterElem(toks, acc, r) ==
    IF ~r.ok \/ r.next > Len(toks) THEN NoParse
    ELSE IF toks[r.next].t = "," THEN ParseElems(toks, r.next + 1, Append(acc, r.v))
    ELSE IF toks[r.next].t = "]"
         THEN [ok |-> TRUE, v |-> JList(Append(acc, r.v)), next |-> r.next + 1]
    ELSE NoParse

\* the members of an object, from token i on
ParseMembers(toks, i, acc) ==
    IF i + 1 > Len(toks) \/ toks[i].t # "str" \/ toks[i + 1].t # ":" THEN NoParse
    ELSE AfterMember(toks, acc, toks[i].s, ParseValue(toks, i + 2))

\* r: the value just parsed for key; a comma or the closing brace must follow
AfterMember(toks, acc, key, r) ==
    IF ~r.ok \/ r.next > Len(toks) THEN NoParse
    ELSE IF toks[r.next].t = ","
         THEN ParseMembers(toks, r.next + 1, DictPut(acc, key, r.v))
    ELSE IF toks[r.next].t = "}"
         THEN [ok |-> TRUE, v |-> JDict(DictPut(acc, key, r.v)), next |-> r.next + 1]
    ELSE NoParse

WholeText(toks, r) ==
    IF r.ok /\ r.next = Len(toks) + 1 THEN [ok |-> TRUE, v |-> r.v]
    ELSE [ok |-> FALSE, v |-> JNull]

\* json.loads(text): the whole text must be one JSON value
JsonLoads(toks) == WholeText(toks, ParseValue(toks, 1))

-----------------------------------------------------------------------------
(* Order interpretation: the pure part of get_ollama_orders *)

SeqToSet(q) == {q[i] : i \in 1..Len(q)}

RECURSIVE Walk(_)
RECURSIVE WalkItems(_, _)
RECURSIVE WalkPairs(_, _)

\* _walk(x): matching strings are collected in visiting order; lists are walked
\* element by element, dicts key first and then value
Walk(x) ==
    CASE x.k = "str" -> IF MatchesOrderPattern(Strip(x.s)) THEN <<Strip(x.s)>> ELSE <<>>
      [] x.k = "list" -> WalkItems(x.items, 1)
      [] x.k = "dict" -> WalkPairs(x.items, 1)
      [] OTHER -> <<>>

WalkItems(items, i) ==
    IF i > Len(items) THEN <<>> ELSE Walk(items[i]) \o WalkItems(items, i + 1)

WalkPairs(items, i) ==
    IF i > Len(items) THEN <<>>
    ELSE Walk(JStr(items[i][1])) \o Walk(items[i][2]) \o WalkPairs(items, i + 1)

\* first attempt: json.loads(raw.strip()) and _walk
WalkParsed(parsed) == IF parsed.ok THEN Walk(parsed.v) ELSE <<>>

ExtractFromJson(raw) == WalkParsed(JsonLoads(raw))

FirstIndex(raw, t, from) ==
    IF \E i \in from..Len(raw) : raw[i].t = t
    THEN CHOOSE i \in from..Len(raw) : raw[i].t = t /\ \A j \in from..(i - 1) : raw[j].t # t
    ELSE 0

LastIndex(raw, t) ==
    IF \E i \in 1..Len(raw) : raw[i].t = t
    THEN CHOOSE i \in 1..Len(raw) : raw[i].t = t /\ \A j \in (i + 1)..Len(raw) : raw[j].t # t
    ELSE 0

\* the strings among the top-level items of a list that match the pattern
RECURSIVE TopLevelOrders(_, _)
TopLevelOrders(items, i) ==
    IF i > Len(items) THEN <<>>
    ELSE (IF items[i].k = "str" /\ MatchesOrderPattern(Strip(items[i].s))
          THEN <<Strip(items[i].s)>> ELSE <<>>) \o TopLevelOrders(items, i + 1)

\* second attempt: re.search(r'\[(.*?)\]', raw, re.S), the text from the first
\* "[" to the first "]" after it, parsed as a JSON array
ArrayOrders(arr) == IF arr.ok THEN TopLevelOrders(arr.v.items, 1) ELSE <<>>

ArrayBetween(raw, i, j) ==
    IF i = 0 \/ j = 0 THEN <<>> ELSE ArrayOrders(JsonLoads(SubSeq(raw, i, j)))

ArrayFrom(raw, i) == ArrayBetween(raw, i, IF i = 0 THEN 0 ELSE FirstIndex(raw, "]", i + 1))

ExtractFromArray(raw) == ArrayFrom(raw, FirstIndex(raw, "[", 1))

\* third attempt: [m[0].strip() for m in re.findall(order_pattern, raw)]
RECURSIVE ExtractFromText(_, _)
ExtractFromText(raw, i) ==
    IF i > Len(raw) THEN <<>>
    ELSE (IF raw[i].t \in {"str", "text"} THEN FindAllIn(raw[i].s.words, 1) ELSE <<>>)
         \o ExtractFromText(raw, i + 1)

\* "if not extracted_orders:" the next attempt runs only after an empty one
OrElse(found, raw, attempt) ==
    IF found # <<>> THEN found
    ELSE IF attempt = "array" THEN ExtractFromArray(raw)
    ELSE ExtractFromText(raw, 1)

ExtractOrders(raw) == OrElse(OrElse(ExtractFromJson(raw), raw, "array"), raw, "text")

\* orders_raw: each extracted order in canonical form, first occurrence only
RECURSIVE Dedupe(_, _, _)
Dedupe(extracted, i, acc) ==
    IF i > Len(extracted) THEN acc
    ELSE LET o == Canonical(extracted[i]) IN
         Dedupe(extracted, i + 1, IF o \in SeqToSet(acc) THEN acc ELSE Append(acc, o))

\* legal_orders_for(game, power)
legal_orders_for(b, power) ==
    UNION {SeqToSet(b.opts[b.locs[power][i]]) : i \in 1..Len(b.locs[power])}

\* the list passed on as it is
Unfiltered(b, power, orders) == orders

\* filter_to_legal(game, power, orders)
filter_to_legal(b, power, orders) ==
    SelectSeq(orders, LAMBDA o : o \in legal_orders_for(b, power))

\* a fallback drawn among the legal options of the location, the draw moving
\* on with every record logged (random.choice in place of the fixed hold)
DrawnFallback(b, loc) == b.opts[loc][(Len(DIALOGUE_LOG) % Len(b.opts[loc])) + 1]

\* the action appended for a location that no kept order names
FallbackOrder(b, loc) == Str(<<Split(b.opts[loc][1])[1], loc, "H">>)

RECURSIVE Complete(_, _, _, _, _)
Complete(b, locs, i, assigned, orders) ==
    IF i > Len(locs) THEN orders
    ELSE Complete(b, locs, i + 1, assigned,
                  IF locs[i] \in assigned THEN orders
                  ELSE Append(orders, FallbackOrder(b, locs[i])))

\* assigned = {o.split()[1] for o in orders}, then the loop over locs
WithFallbacks(b, power, orders) ==
    Complete(b, b.locs[power], 1, {Split(orders[i])[2] : i \in 1..Len(orders)}, orders)

\* the list get_ollama_orders returns for a raw response
InterpretOrders(b, power, raw) ==
    WithFallbacks(b, power, filter_to_legal(b, power, Dedupe(ExtractOrders(raw), 1, <<>>)))

-----------------------------------------------------------------------------
(* Message interpretation: the pure part of get_ollama_message *)

Key(w) == Str(<<w>>)

\* dict.get(key, default)
DictGet(d, key, default) ==
    IF d.k = "dict" /\ \E i \in 1..Len(d.items) : d.items[i][1] = key
    THEN d.items[CHOOSE i \in 1..Len(d.items) : d.items[i][1] = key][2]
    ELSE default

\* Python truthiness of a decoded JSON value
Truthy(v) ==
    CASE v.k = "str" -> StrTruthy(v.s)
      [] v.k = "num" -> v.n # 0
      [] v.k = "null" -> FALSE
      [] OTHER -> v.items # <<>>

\* re.search(r"\{.*\}", raw_output, re.DOTALL): from the first "{" to the last "}"
BraceMatch(raw) ==
    LET i == FirstIndex(raw, "{", 1)
        j == LastIndex(raw, "}")
    IN  IF i # 0 /\ j > i THEN SubSeq(raw, i, j) ELSE <<>>

SecondAttempt(whole, raw) == IF whole.ok THEN whole ELSE JsonLoads(BraceMatch(raw))

\* the value the two json.loads attempts give, if any
DecodeMessage(raw) == SecondAttempt(JsonLoads(raw), raw)

\* what "for rec in recipients" iterates over: the items of a list, the keys of
\* a dict, the characters of a str (one stand-in per word here)
Iterate(v) ==
    CASE v.k = "list" -> v.items
      [] v.k = "dict" -> [i \in 1..Len(v.items) |-> JStr(v.items[i][1])]
      [] v.k = "str" -> [i \in 1..Len(v.s.words) |-> JStr(Key("<char>"))]
      [] OTHER -> <<>>

Iterable(v) == v.k \in {"list", "dict", "str"}

\* "power in recipients"
Contains(v, power) ==
    CASE v.k = "list" -> \E i \in 1..Len(v.items) : v.items[i] = JStr(Key(power))
      [] v.k = "dict" -> \E i \in 1..Len(v.items) : v.items[i][1] = Key(power)
      [] v.k = "str" -> \E i \in 1..Len(v.s.words) : v.s.words[i] = power
      [] OTHER -> FALSE

\* The course get_ollama_message takes once the fields are read:
\*   "silent"   one of the early  return ""
\*   "raised"   an exception before any state is touched
\*   "partial"  PHASE_MESSAGES appended, then the loop over recipients raises
\*   "sent"     the message is recorded, handed to the engine and logged
Course(matched, decoded, recipients, message) ==
    IF ~matched THEN "silent"
    ELSE IF ~decoded.ok THEN "silent"
    ELSE IF decoded.v.k # "dict" THEN "raised"
    ELSE IF message.k # "str" THEN "raised"
    ELSE IF ~Truthy(recipients) \/ ~StrTruthy(Strip(message.s)) THEN "silent"
    ELSE IF ~Iterable(recipients) THEN "partial"
    ELSE "sent"

ReadFields(matched, decoded, recipients, message, meta) ==
    [outcome |-> Course(matched, decoded, recipients, message),
     recipients |-> recipients, msg |-> Strip(message.s), meta |-> meta]

Decoded(matched, decoded) ==
    ReadFields(matched, decoded,
               DictGet(decoded.v, Key("recipients"), JList(<<>>)),
               DictGet(decoded.v, Key("message"), JStr(EmptyStr)),
               DictGet(decoded.v, Key("meta"), JDict(<<>>)))

InterpretMessage(raw) == Decoded(BraceMatch(raw) # <<>>, DecodeMessage(raw))

-----------------------------------------------------------------------------
(* The game engine as main uses it *)

MAX_YEAR == 1912

\* game.powers, in the engine's iteration order
Powers == <<"FRANCE", "GERMANY">>
PowerSet == SeqToSet(Powers)

Phase(season, year, kind) == [season |-> season, year |-> year, kind |-> kind]
Completed == Phase("C", 0, "COMPLETED")

\* the phases of the run that are modelled, in calendar order
Calendar == <<Phase("S", 1901, "M"), Phase("S", 1901, "R"), Phase("F", 1912, "M"),
              Phase("S", 1913, "M")>>

Later(p) ==
    {Calendar[j] : j \in {j \in 1..Len(Calendar) :
                            \E i \in 1..(j - 1) : Calendar[i] = p}}

Ord(ws) == Str(ws)
NoOrders == [l \in Locations |-> <<>>]

\* movement: two French armies and one German army, each may hold
MoveBoard ==
    [kind |-> "M",
     locs |-> [p \in PowerSet |-> IF p = "FRANCE" THEN <<"PAR", "MAR">> ELSE <<"MUN">>],
     opts |-> [NoOrders EXCEPT
                 !["PAR"] = <<Ord(<<"A", "PAR", "H">>), Ord(<<"A", "PAR", "-", "BUR">>)>>,
                 !["MAR"] = <<Ord(<<"A", "MAR", "H">>),
                              Ord(<<"A", "MAR", "S", "A", "PAR", "-", "BUR">>)>>,
                 !["MUN"] = <<Ord(<<"A", "MUN", "H">>), Ord(<<"A", "MUN", "-", "BUR">>)>>]]

\* retreat: the French army in PAR is dislodged; hold is not among its options
RetreatBoard ==
    [kind |-> "R",
     locs |-> [p \in PowerSet |-> IF p = "FRANCE" THEN <<"PAR">> ELSE <<>>],
     opts |-> [NoOrders EXCEPT
                 !["PAR"] = <<Ord(<<"A", "PAR", "D">>), Ord(<<"A", "PAR", "R", "BUR">>)>>]]

\* adjustment: France must disband, Germany may build in BER
AdjustBoard ==
    [kind |-> "A",
     locs |-> [p \in PowerSet |-> IF p = "FRANCE" THEN <<"MAR">> ELSE <<"BER">>],
     opts |-> [NoOrders EXCEPT
                 !["MAR"] = <<Ord(<<"A", "MAR", "D">>)>>,
                 !["BER"] = <<Ord(<<"A", "BER", "B">>), Ord(<<"F", "BER", "B">>)>>]]

Boards == {MoveBoard, RetreatBoard, AdjustBoard}
BoardsOf(kind) == {b \in Boards : b.kind = kind}

-----------------------------------------------------------------------------
(* Generator responses *)

MaxItems == 2    \* strings per generated order response

\* run_ollama returns the response text, or _ollama_call raises
Reply(raw) == [ok |-> TRUE, raw |-> raw]
Failure == [ok |-> FALSE, raw |-> <<>>]

RECURSIVE CommaSep(_, _)
CommaSep(xs, i) ==
    IF i > Len(xs) THEN <<>>
    ELSE (IF i > 1 THEN <<Comma>> ELSE <<>>) \o <<Lit(xs[i])>> \o CommaSep(xs, i + 1)

Arr(xs) == <<LBrack>> \o CommaSep(xs, 1) \o <<RBrack>>
Obj(key, val) == <<LBrace, Lit(Key(key)), Colon>> \o val \o <<RBrace>>
Sure == Prose(Str(<<"Sure!">>))

\* the strings a response may carry for a power: its legal orders, one of them
\* with doubled blanks, an order of the grammar that is not legal, a word that
\* only starts like a verb, and a string that is no order
Candidates(b, power) ==
    legal_orders_for(b, power)
    \cup {Wide(o.words) : o \in {o \in legal_orders_for(b, power) : Len(o.words) > 3}}
    \cup {Str(<<"A", b.locs[power][i], "-", "BER">>) : i \in 1..Len(b.locs[power])}
    \cup {Str(<<"A", b.locs[power][i], "HOLD">>) : i \in 1..Len(b.locs[power])}
    \cup {Key("orders")}

ItemLists(S) == UNION {[1..k -> S] : k \in 0..MaxItems}

\* the wrappings of a list of strings
Shapes(xs) ==
    {Arr(xs),                                        \* ["..", ".."]
     <<LBrack>> \o Arr(xs) \o <<RBrack>>,            \* [["..", ".."]]
     Obj("orders", Arr(xs)),                         \* {"orders": [..]}
     <<Sure>> \o Arr(xs),                            \* prose before
     Arr(xs) \o <<Sure>>,                            \* prose after
     <<Fence>> \o Arr(xs) \o <<Fence>>,              \* markdown fence
     <<Sure>> \o Obj("orders", Arr(xs)),             \* prose and an object layer
     <<Sure, LBrack>> \o Arr(xs) \o <<RBrack>>,      \* prose and an array layer
     <<LBrack>> \o CommaSep(xs, 1),                  \* truncated
     [i \in 1..Len(xs) |-> Prose(xs[i])],            \* bare text, no JSON at all
     <<Sure>> \o [i \in 1..Len(xs) |-> Lit(xs[i])]}  \* quoted, no enclosing structure
    \cup (IF Len(xs) = 2 THEN {<<LBrace, Lit(xs[1]), Colon, Lit(xs[2]), RBrace>>} ELSE {})

OrderResponses(b, power) ==
    UNION {Shapes(xs) : xs \in ItemLists(Candidates(b, power))}

OrderGen(b, power) == {Failure} \cup {Reply(raw) : raw \in OrderResponses(b, power)}

\* the responses the driver loop is run on: a failed call, an empty text, and a
\* list that names the last legal order of every location
LastOptions(b, power) ==
    [i \in 1..Len(b.locs[power]) |->
        b.opts[b.locs[power][i]][Len(b.opts[b.locs[power][i]])]]

DriverOrderGen(b, power) == {Failure, Reply(<<>>), Reply(Arr(LastOptions(b, power)))}

\* one JSON object per choice of the three fields; <<>> leaves the field out
RECURSIVE Members(_, _, _)
Members(fields, i, started) ==
    IF i > Len(fields) THEN <<>>
    ELSE IF fields[i][2] = <<>> THEN Members(fields, i + 1, started)
    ELSE (IF started THEN <<Comma>> ELSE <<>>)
         \o <<Lit(Key(fields[i][1])), Colon>> \o fields[i][2]
         \o Members(fields, i + 1, TRUE)

MessageObject(recipients, message, meta) ==
    <<LBrace>>
    \o Members(<<<<"recipients", recipients>>, <<"message", message>>, <<"meta", meta>>>>,
               1, FALSE)
    \o <<RBrace>>

Others(power) == SelectSeq(Powers, LAMBDA p : p # power)

RecipientChoices(power) ==
    LET other == Key(Others(power)[1]) IN
    {<<>>, Arr(<<>>), Arr(<<other>>), Arr(<<other, other>>), Arr(<<Key(power)>>),
     Arr(<<Key("ATLANTIS")>>), Arr(<<other, Key("ATLANTIS")>>),
     <<Lit(other)>>, <<Num(5)>>, <<Num(0)>>, <<Null>>, <<LBrace, RBrace>>}

MessageChoices ==
    {<<>>, <<Lit(Key("hi"))>>, <<Lit(EmptyStr)>>, <<Lit(Padded(<<>>))>>,
     <<Lit(Padded(<<"hi">>))>>, <<Num(5)>>, <<Null>>, Arr(<<Key("hi")>>)}

MetaChoices ==
    {<<>>, Obj("confidence", <<Num(15)>>), Obj("confidence", <<Num(5)>>),
     Obj("trust", Obj("GERMANY", <<Num(-2)>>)), <<Num(3)>>}

MessageResponses(power) ==
    LET objects == {MessageObject(r, m, e) : r \in RecipientChoices(power),
                                             m \in MessageChoices, e \in MetaChoices}
    IN  objects
        \cup {<<Sure>> \o o : o \in objects}
        \cup {<<Fence>> \o o \o <<Fence>> : o \in objects}
        \cup {<<LBrack>> \o o \o <<RBrack>> : o \in objects}
        \cup {<<>>, <<Num(5)>>, <<Null>>, <<Lit(Key("hi"))>>, <<LBrace>>, Arr(<<>>)}

MessageGen(power) == {Failure} \cup {Reply(raw) : raw \in MessageResponses(power)}

\* the responses the driver loop is run on: a failed call, the empty object, a
\* message to the next power, and an array around the empty object
DriverMessageGen(power) ==
    {Failure,
     Reply(<<LBrace, RBrace>>),
     Reply(MessageObject(Arr(<<Key(Others(power)[1])>>), <<Lit(Key("hi"))>>, <<>>)),
     Reply(<<LBrack, LBrace, RBrace, RBrack>>)}

-----------------------------------------------------------------------------
(* get_ollama_message *)

\* asked: run_ollama was called; gen: what the call gave
NoCall == [fn |-> "none", power |-> "", asked |-> FALSE, gen |-> Failure,
           outcome |-> "none", orders |-> <<>>, msg |-> EmptyStr, history |-> <<>>]

PhaseMessages(ph) == IF ph \in DOMAIN PHASE_MESSAGES THEN PHASE_MESSAGES[ph] ELSE <<>>

\* every message of the phase, whoever sent or received it
WholeHistory(power) == PhaseMessages(phase)

\* the history placed in the prompt
History(power) ==
    SelectSeq(PhaseMessages(phase),
              LAMBDA m : m.power = power \/ Contains(m.recipients, power))

\* "power in m['recipients']" raises TypeError when recipients is a number
HistoryRaises(power) ==
    \E i \in 1..Len(PhaseMessages(phase)) :
        /\ PhaseMessages(phase)[i].power # power
        /\ PhaseMessages(phase)[i].recipients.k = "num"

ChatPrompt(power) ==
    [phase |-> phase, power |-> power, allowed |-> Others(power), history |-> History(power)]

\* PHASE_MESSAGES[phase].append(...)
Recorded(entry) ==
    IF phase \in DOMAIN PHASE_MESSAGES
    THEN [PHASE_MESSAGES EXCEPT ![phase] = Append(@, entry)]
    ELSE PHASE_MESSAGES @@ (phase :> <<entry>>)

\* game.add_message for each recipient
Delivered(power, msg, recs) ==
    sent \o [i \in 1..Len(recs) |->
               [sender |-> power, recipient |-> recs[i], message |-> msg, phase |-> phase]]

MessageCalled(power, gen, outcome, msg, history) ==
    [fn |-> "message", power |-> power, asked |-> TRUE, gen |-> gen, outcome |-> outcome,
     orders |-> <<>>, msg |-> msg, history |-> history]

\* r: the interpretation of the response; course: what the call does.  A raise
\* in the history comprehension comes before run_ollama is called, but is
\* recorded like any other raise.
Deliver(power, gen, r, course, history) ==
    \/ /\ course = "raised"
       /\ last' = MessageCalled(power, gen, "raised", EmptyStr, history)
       /\ UNCHANGED <<PHASE_MESSAGES, sent, DIALOGUE_LOG>>
    \/ /\ course = "silent"
       /\ last' = MessageCalled(power, gen, "silent", EmptyStr, history)
       /\ UNCHANGED <<PHASE_MESSAGES, sent, DIALOGUE_LOG>>
    \/ /\ course = "partial"
       /\ PHASE_MESSAGES' = Recorded([power |-> power, recipients |-> r.recipients,
                                      message |-> r.msg, meta |-> r.meta])
       /\ last' = MessageCalled(power, gen, "raised", EmptyStr, history)
       /\ UNCHANGED <<sent, DIALOGUE_LOG>>
    \/ /\ course = "sent"
       /\ PHASE_MESSAGES' = Recorded([power |-> power, recipients |-> r.recipients,
                                      message |-> r.msg, meta |-> r.meta])
       /\ sent' = Delivered(power, r.msg, Iterate(r.recipients))
       /\ DIALOGUE_LOG' = Append(DIALOGUE_LOG,
             [phase |-> phase, power |-> power, recipients |-> r.recipients,
              type |-> "chat", prompt |-> ChatPrompt(power), response |-> r.msg,
              meta |-> r.meta])
       /\ last' = MessageCalled(power, gen, "sent", r.msg, history)

Interpreted(power, gen, r) ==
    Deliver(power, gen, r,
            IF HistoryRaises(power) \/ ~gen.ok THEN "raised" ELSE r.outcome,
            IF HistoryRaises(power) THEN <<>> ELSE History(power))

GetOllamaMessage(power, gen) == Interpreted(power, gen, InterpretMessage(gen.raw))

-----------------------------------------------------------------------------
(* get_ollama_orders *)

\* my_last_msg
LastOf(mine) == IF mine = <<>> THEN Key("(none this phase)") ELSE mine[Len(mine)].message

MyLastMessage(power) == LastOf(SelectSeq(PhaseMessages(phase), LAMBDA m : m.power = power))

PromptFor(power, locs) ==
    [phase |-> phase, power |-> power,
     my_units |-> [i \in 1..Len(locs) |-> Str(<<Split(board.opts[locs[i]][1])[1], locs[i]>>)],
     my_last_msg |-> MyLastMessage(power),
     legal |-> [i \in 1..Len(locs) |-> <<locs[i], board.opts[locs[i]]>>]]

OrdersPrompt(power) == PromptFor(power, board.locs[power])

OrdersCalled(power, asked, gen, outcome, orders) ==
    [fn |-> "orders", power |-> power, asked |-> asked, gen |-> gen, outcome |-> outcome,
     orders |-> orders, msg |-> EmptyStr, history |-> <<>>]

\* orders: the interpretation of the response
Answered(power, gen, orders) ==
    \/ /\ board.locs[power] = <<>>
       /\ last' = OrdersCalled(power, FALSE, Failure, "returned", <<>>)
       /\ UNCHANGED DIALOGUE_LOG
    \/ /\ board.locs[power] # <<>>
       /\ ~gen.ok
       /\ last' = OrdersCalled(power, TRUE, gen, "raised", <<>>)
       /\ UNCHANGED DIALOGUE_LOG
    \/ /\ board.locs[power] # <<>>
       /\ gen.ok
       /\ DIALOGUE_LOG' = Append(DIALOGUE_LOG,
             [phase |-> phase, power |-> power, type |-> "orders",
              prompt |-> OrdersPrompt(power), response |-> gen.raw, orders |-> orders])
       /\ last' = OrdersCalled(power, TRUE, gen, "returned", orders)

GetOllamaOrders(power, gen) == Answered(power, gen, InterpretOrders(board, power, gen.raw))

-----------------------------------------------------------------------------
(* main *)

\* _to_string_orders on a list of strings: each item stripped
to_string_orders(raw) == [i \in 1..Len(raw) |-> Strip(raw[i])]

\* one call of main: get_ollama_message, get_ollama_orders, game.set_orders
\* for a power, or game.process
Call(op, power) == [op |-> op, power |-> power]

\* a power drawn afresh for each place of the turn order
Draws == [1..Len(Powers) -> PowerSet]

\* random.shuffle(turn_order): any arrangement of the powers
Shuffles ==
    {q \in [1..Len(Powers) -> PowerSet] : \A i, j \in 1..Len(Powers) : q[i] = q[j] => i = j}

NothingSubmitted == [p \in PowerSet |-> <<>>]

Init ==
    /\ pc = "loop"
    /\ phase = Calendar[1]
    /\ is_game_done = FALSE
    /\ board = MoveBoard
    /\ turn_order = <<>>
    /\ order_queue = <<>>
    /\ PHASE_MESSAGES = <<>>
    /\ DIALOGUE_LOG = <<>>
    /\ sent = <<>>
    /\ submitted = NothingSubmitted
    /\ processed = 0
    /\ saved = 0
    /\ last = NoCall
    /\ calls = <<>>

\* while not game.is_game_done, year <= MAX_YEAR: shuffle and start the phase
LoopEnter ==
    /\ pc = "loop"
    /\ ~is_game_done
    /\ phase.year <= MAX_YEAR
    /\ turn_order' \in Shuffles
    /\ calls' = <<>>
    /\ pc' = "msg"
    /\ UNCHANGED <<phase, is_game_done, board, order_queue, PHASE_MESSAGES, DIALOGUE_LOG,
                   sent, submitted, processed, saved, last>>

\* the loop ends: the game is done, or the break on year > MAX_YEAR
LoopExit ==
    /\ pc = "loop"
    /\ is_game_done \/ phase.year > MAX_YEAR
    /\ pc' = "save"
    /\ UNCHANGED <<phase, is_game_done, board, turn_order, order_queue, PHASE_MESSAGES,
                   DIALOGUE_LOG, sent, submitted, processed, saved, last, calls>>

\* for pw in turn_order: get_ollama_message(game, pw)
MessageStep ==
    /\ pc = "msg"
    /\ turn_order # <<>>
    /\ \E gen \in DriverMessageGen(Head(turn_order)) :
          GetOllamaMessage(Head(turn_order), gen)
    /\ IF last'.outcome = "raised"
       THEN /\ pc' = "crashed"
            /\ UNCHANGED <<turn_order, order_queue>>
       ELSE /\ turn_order' = Tail(turn_order)
            /\ pc' = IF Tail(turn_order) = <<>> THEN "orders" ELSE "msg"
            /\ order_queue' = IF Tail(turn_order) = <<>> THEN Powers ELSE order_queue
    /\ calls' = Append(calls, Call("message", Head(turn_order)))
    /\ UNCHANGED <<phase, is_game_done, board, submitted, processed, saved>>

\* for pw in game.powers: get_ollama_orders, filter_to_legal, game.set_orders
OrdersStep ==
    /\ pc = "orders"
    /\ order_queue # <<>>
    /\ \E gen \in DriverOrderGen(board, Head(order_queue)) :
          GetOllamaOrders(Head(order_queue), gen)
    /\ IF last'.outcome = "raised"
       THEN /\ pc' = "crashed"
            /\ calls' = Append(calls, Call("orders", Head(order_queue)))
            /\ UNCHANGED <<order_queue, submitted>>
       ELSE /\ submitted' = [submitted EXCEPT ![Head(order_queue)] =
                               filter_to_legal(board, Head(order_queue),
                                               to_string_orders(last'.orders))]
            /\ order_queue' = Tail(order_queue)
            /\ calls' = calls \o <<Call("orders", Head(order_queue)),
                                   Call("set_orders", Head(order_queue))>>
            /\ pc' = IF Tail(order_queue) = <<>> THEN "process" ELSE "orders"
    /\ UNCHANGED <<phase, is_game_done, board, turn_order, PHASE_MESSAGES, sent,
                   processed, saved>>

MessageTexts(mine) == [i \in 1..Len(mine) |-> mine[i].message]

\* [m.message for m in phase_data.messages.values()]
EngineMessages == MessageTexts(SelectSeq(sent, LAMBDA m : m.phase = phase))

\* game.process() with the log restarted at each phase's record
ProcessReplacing ==
    /\ pc = "process"
    /\ \/ /\ is_game_done' = TRUE
          /\ phase' = Completed
          /\ UNCHANGED board
       \/ /\ is_game_done' = FALSE
          /\ phase' \in Later(phase)
          /\ board' \in BoardsOf(phase'.kind)
    /\ DIALOGUE_LOG' =
          <<[phase |-> phase, type |-> "engine_messages", messages |-> EngineMessages]>>
    /\ submitted' = NothingSubmitted
    /\ processed' = processed + 1
    /\ calls' = Append(calls, Call("process", ""))
    /\ pc' = "loop"
    /\ UNCHANGED <<turn_order, order_queue, PHASE_MESSAGES, sent, saved, last>>

\* game.process() and the engine_messages record; the engine either ends the
\* game or moves to a later phase with that phase's board
Process ==
    /\ pc = "process"
    /\ \/ /\ is_game_done' = TRUE
          /\ phase' = Completed
          /\ UNCHANGED board
       \/ /\ is_game_done' = FALSE
          /\ phase' \in Later(phase)
          /\ board' \in BoardsOf(phase'.kind)
    /\ DIALOGUE_LOG' = Append(DIALOGUE_LOG,
          [phase |-> phase, type |-> "engine_messages", messages |-> EngineMessages])
    /\ submitted' = NothingSubmitted
    /\ processed' = processed + 1
    /\ calls' = Append(calls, Call("process", ""))
    /\ pc' = "loop"
    /\ UNCHANGED <<turn_order, order_queue, PHASE_MESSAGES, sent, saved, last>>

\* OUTPUT_FILE.write_text and DIALOGUE_FILE.write_text
Save ==
    /\ pc = "save"
    /\ saved' = saved + 1
    /\ pc' = "done"
    /\ UNCHANGED <<phase, is_game_done, board, turn_order, order_queue, PHASE_MESSAGES,
                   DIALOGUE_LOG, sent, submitted, processed, last, calls>>

Next == LoopEnter \/ LoopExit \/ MessageStep \/ OrdersStep \/ Process \/ Save

Spec == Init /\ [][Next]_vars

-----------------------------------------------------------------------------
(* One call of get_ollama_orders, for every board, power and response *)

InitOrders ==
    /\ pc = "orders"
    /\ board \in Boards
    /\ phase = Phase(IF board.kind = "A" THEN "W" ELSE "S", 1901, board.kind)
    /\ is_game_done = FALSE
    /\ turn_order = <<>>
    /\ order_queue \in {<<p>> : p \in PowerSet}
    /\ PHASE_MESSAGES = <<>>
    /\ DIALOGUE_LOG = <<>>
    /\ sent = <<>>
    /\ submitted = NothingSubmitted
    /\ processed = 0
    /\ saved = 0
    /\ last = NoCall
    /\ calls = <<>>

OrdersCall ==
    /\ pc = "orders"
    /\ \E gen \in OrderGen(board, Head(order_queue)) :
          GetOllamaOrders(Head(order_queue), gen)
    /\ pc' = IF last'.outcome = "raised" THEN "crashed" ELSE "returned"
    /\ UNCHANGED <<phase, is_game_done, board, turn_order, order_queue, PHASE_MESSAGES,
                   sent, submitted, processed, saved, calls>>

NextOrders == OrdersCall

SpecOrders == InitOrders /\ [][NextOrders]_vars

-----------------------------------------------------------------------------
(* One call of get_ollama_message, for every power and response *)

InitMessage ==
    /\ pc = "msg"
    /\ board = MoveBoard
    /\ phase = Calendar[1]
    /\ is_game_done = FALSE
    /\ turn_order \in {<<p>> : p \in PowerSet}
    /\ order_queue = <<>>
    /\ PHASE_MESSAGES = <<>>
    /\ DIALOGUE_LOG = <<>>
    /\ sent = <<>>
    /\ submitted = NothingSubmitted
    /\ processed = 0
    /\ saved = 0
    /\ last = NoCall
    /\ calls = <<>>

MessageCall ==
    /\ pc = "msg"
    /\ \E gen \in MessageGen(Head(turn_order)) :
          GetOllamaMessage(Head(turn_order), gen)
    /\ pc' = IF last'.outcome = "raised" THEN "crashed" ELSE "returned"
    /\ UNCHANGED <<phase, is_game_done, board, turn_order, order_queue, submitted,
                   processed, saved, calls>>

NextMessage == MessageCall

SpecMessage == InitMessage /\ [][NextMessage]_vars

-----------------------------------------------------------------------------
(* The message rounds of main over the phases of the calendar.  The order     *)
(* round of a phase reads PHASE_MESSAGES but writes neither it nor the        *)
(* engine's messages, so it is left out here and the responses are richer.    *)

\* a failed call, the empty object, and a message to the other power, to an
\* unknown name, and to the other power named by a bare string
PressGen(power) ==
    {Failure,
     Reply(<<LBrace, RBrace>>),
     Reply(MessageObject(Arr(<<Key(Others(power)[1])>>), <<Lit(Key("hi"))>>, <<>>)),
     Reply(MessageObject(Arr(<<Key("ATLANTIS")>>), <<Lit(Key("hi"))>>, <<>>)),
     Reply(MessageObject(<<Lit(Key(Others(power)[1]))>>, <<Lit(Key("hi"))>>, <<>>))}

\* for pw in turn_order: get_ollama_message(game, pw)
PressStep ==
    /\ pc = "msg"
    /\ turn_order # <<>>
    /\ \E gen \in PressGen(Head(turn_order)) :
          GetOllamaMessage(Head(turn_order), gen)
    /\ IF last'.outcome = "raised"
       THEN /\ pc' = "crashed"
            /\ UNCHANGED turn_order
       ELSE /\ turn_order' = Tail(turn_order)
            /\ pc' = IF Tail(turn_order) = <<>> THEN "process" ELSE "msg"
    /\ calls' = Append(calls, Call("message", Head(turn_order)))
    /\ UNCHANGED <<phase, is_game_done, board, order_queue, submitted, processed, saved>>

NextPress == LoopEnter \/ LoopExit \/ PressStep \/ Process \/ Save

SpecPress == Init /\ [][NextPress]_vars

-----------------------------------------------------------------------------
(* main when every generator call returns.  main is one sequential process:  *)
(* whenever it has a next step it takes it.                                   *)

MessageReturns == MessageStep /\ last'.gen.ok

OrdersReturns == OrdersStep /\ (last'.asked => last'.gen.ok)

NextReturns ==
    LoopEnter \/ LoopExit \/ MessageReturns \/ OrdersReturns \/ Process \/ Save

SpecReturns == Init /\ [][NextReturns]_vars /\ WF_vars(NextReturns)

-----------------------------------------------------------------------------
(* Properties of get_ollama_orders, checked under SpecOrders *)

OrdersReturned == last.fn = "orders" /\ last.asked /\ last.outcome = "returned"
CalledLocs == board.locs[last.power]
OrderLoc(o) == Split(o)[2]
OrdersAt(orders, loc) == SelectSeq(orders, LAMBDA o : OrderLoc(o) = loc)

\* the candidates of the response that survive legality filtering
Kept == filter_to_legal(board, last.power, Dedupe(ExtractOrders(last.gen.raw), 1, <<>>))

\* C1: the list returned for a response holds exactly one order per orderable
\* location: as many orders as locations, no location twice, none missing.
C1_OneOrderPerLocation ==
    OrdersReturned =>
        /\ Len(last.orders) = Len(CalledLocs)
        /\ \A i, j \in 1..Len(last.orders) :
              OrderLoc(last.orders[i]) = OrderLoc(last.orders[j]) => i = j
        /\ \A l \in SeqToSet(CalledLocs) : OrdersAt(last.orders, l) # <<>>

\* C2: every returned order, a synthesized one included, is a legal action of
\* the location it names, in movement, retreat and adjustment phases alike.
C2_ReturnedOrdersLegal ==
    OrdersReturned =>
        \A i \in 1..Len(last.orders) :
            last.orders[i] \in SeqToSet(board.opts[OrderLoc(last.orders[i])])

\* C5: when two or more different legal actions for one location survive
\* filtering, only the first of them is in the result for that location.
C5_FirstCandidateWins ==
    OrdersReturned =>
        \A l \in SeqToSet(CalledLocs) :
            Len(OrdersAt(Kept, l)) >= 2 => OrdersAt(last.orders, l) = <<OrdersAt(Kept, l)[1]>>

\* string comparison of two orders, word by word
WordRank(w) ==
    CHOOSE n \in 1..15 :
        <<"-", "A", "B", "BER", "BUR", "C", "D", "F", "H", "HOLD", "MAR", "MUN", "PAR",
          "R", "S">>[n] = w

RECURSIVE WordsLess(_, _, _)
WordsLess(a, b, i) ==
    IF i > Len(a) THEN i <= Len(b)
    ELSE IF i > Len(b) THEN FALSE
    ELSE IF a[i] # b[i] THEN WordRank(a[i]) < WordRank(b[i])
    ELSE WordsLess(a, b, i + 1)

LexFirst(opts) ==
    CHOOSE o \in SeqToSet(opts) :
        \A p \in SeqToSet(opts) : p = o \/ WordsLess(o.words, p.words, 1)

HoldOf(loc) == {o \in SeqToSet(board.opts[loc]) : Len(o.words) = 3 /\ o.words[3] = "H"}

\* C6: a location without a surviving candidate gets its legal hold action,
\* and where hold is not legal the lexicographically first legal action.
C6_FallbackHoldOrFirstLegal ==
    OrdersReturned =>
        \A l \in SeqToSet(CalledLocs) :
            OrdersAt(Kept, l) = <<>> =>
                \E o \in (IF HoldOf(l) # {} THEN HoldOf(l) ELSE {LexFirst(board.opts[l])}) :
                    OrdersAt(last.orders, l) = <<o>>

\* the wrappings C7 lists, around one string
Wrapped(o) ==
    {<<Fence>> \o Arr(<<o>>) \o <<Fence>>,
     <<Sure>> \o Arr(<<o>>),
     Arr(<<o>>) \o <<Sure>>,
     <<LBrack>> \o Arr(<<o>>) \o <<RBrack>>,
     Obj("orders", Arr(<<o>>)),
     <<Sure>> \o Obj("orders", Arr(<<o>>)),
     <<Sure, LBrack>> \o Arr(<<o>>) \o <<RBrack>>,
     <<Prose(o)>>,
     <<Sure, Lit(o)>>}

\* C7: a legal action wrapped in a markdown fence, in prose, in one more
\* object or array layer, in prose with such a layer, or carried bare by
\* prose, is the order returned for its location.
C7_WrappedOrderAccepted ==
    OrdersReturned =>
        \A o \in legal_orders_for(board, last.power) :
            last.gen.raw \in Wrapped(o) => OrdersAt(last.orders, OrderLoc(o)) = <<o>>

-----------------------------------------------------------------------------
(* Properties of get_ollama_message, checked under SpecMessage *)

MessageAnswered == last.fn = "message" /\ last.asked /\ last.gen.ok

\* C4: whatever the response decodes to, the call ends with a delivered
\* message or silently; it raises nothing.
C4_MessageNeverRaises ==
    MessageAnswered => last.outcome \in {"sent", "silent"}

KnownOther(v, sender) ==
    /\ v.k = "str"
    /\ \E p \in PowerSet \ {sender} : v.s = Key(p)

ValidRecipients(v, sender) ==
    /\ v.k = "list"
    /\ v.items # <<>>
    /\ \A i \in 1..Len(v.items) : KnownOther(v.items[i], sender)
    /\ \A i, j \in 1..Len(v.items) : v.items[i] = v.items[j] => i = j

\* C8: every message handed to the engine or recorded goes to a non-empty,
\* duplicate-free sequence of known participants other than the sender.
C8_RecipientsValid ==
    /\ \A i \in 1..Len(sent) : KnownOther(sent[i].recipient, sent[i].sender)
    /\ \A i \in 1..Len(DIALOGUE_LOG) :
          DIALOGUE_LOG[i].type = "chat" =>
              ValidRecipients(DIALOGUE_LOG[i].recipients, DIALOGUE_LOG[i].power)

HasKey(d, w) == \E i \in 1..Len(d.items) : d.items[i][1] = Key(w)

\* the response decodes to an object that is empty, lacks recipients or has an
\* empty list of them, or lacks a message or has a blank one
RejectedObject(d) ==
    /\ d.ok
    /\ d.v.k = "dict"
    /\ \/ d.v.items = <<>>
       \/ ~HasKey(d.v, "recipients")
       \/ DictGet(d.v, Key("recipients"), JNull) = JList(<<>>)
       \/ ~HasKey(d.v, "message")
       \/ /\ DictGet(d.v, Key("message"), JNull).k = "str"
          /\ DictGet(d.v, Key("message"), JNull).s.words = <<>>

Untouched == PHASE_MESSAGES = <<>> /\ sent = <<>> /\ DIALOGUE_LOG = <<>>

\* C9: such a response is answered silently: the empty result is returned and
\* the engine's messages, PHASE_MESSAGES and DIALOGUE_LOG stay as they were.
C9_RejectedIsSilent ==
    (MessageAnswered /\ RejectedObject(DecodeMessage(last.gen.raw))) =>
        (last.outcome = "silent" /\ last.msg = EmptyStr /\ Untouched)

\* C9 with the message field absent or a string: the part the code keeps
C9_RejectedStringIsSilent ==
    (/\ MessageAnswered
     /\ RejectedObject(DecodeMessage(last.gen.raw))
     /\ DictGet(DecodeMessage(last.gen.raw).v, Key("message"), JStr(EmptyStr)).k = "str") =>
        (last.outcome = "silent" /\ last.msg = EmptyStr /\ Untouched)

-----------------------------------------------------------------------------
(* Properties of the driver loop, checked under Spec *)

\* C3: a failed generator call is taken as an empty response: the power's
\* locations get their fallbacks, no message is sent, and the run goes on.
C3_GeneratorFailureAbsorbed ==
    (last.asked /\ ~last.gen.ok) =>
        /\ pc # "crashed"
        /\ last.fn = "message" => last.outcome = "silent"
        /\ last.fn = "orders" => last.outcome = "returned"

IsOrders(rec) == rec.type = "orders"

C11_LogAppendOnly ==
    [][/\ Len(DIALOGUE_LOG') >= Len(DIALOGUE_LOG)
       /\ \A i \in 1..Len(DIALOGUE_LOG) : DIALOGUE_LOG'[i] = DIALOGUE_LOG[i]]_vars

\* the log has grown by a chat record, an orders record and the
\* engine_messages records of two processed phases
C11_Witness ==
    /\ processed >= 2
    /\ \E i, j, k, l \in 1..Len(DIALOGUE_LOG) :
          /\ i < j /\ j < k /\ k < l
          /\ DIALOGUE_LOG[i].type = "chat"
          /\ DIALOGUE_LOG[j].type = "orders"
          /\ DIALOGUE_LOG[k].type = "engine_messages"
          /\ DIALOGUE_LOG[l].type = "engine_messages"

\* C12: every interpreter call that returns is recorded: an order call appends
\* one orders record and a message call one chat record for the power asked,
\* also when the power has no orderable location or stays silent.
C12_EveryCallRecorded ==
    [][(pc \in {"msg", "orders"} /\ last'.outcome # "raised") =>
          /\ Len(DIALOGUE_LOG') = Len(DIALOGUE_LOG) + 1
          /\ DIALOGUE_LOG'[Len(DIALOGUE_LOG')].power = last'.power
          /\ DIALOGUE_LOG'[Len(DIALOGUE_LOG')].type =
                (IF last'.fn = "orders" THEN "orders" ELSE "chat")]_vars

\* C12 for the calls that reach the end of their function: an order call that
\* asked the generator, a message call that delivered its message
C12_CompletedCallRecorded ==
    [][(/\ pc \in {"msg", "orders"}
        /\ last'.outcome \in {"returned", "sent"}
        /\ last'.asked) =>
          /\ Len(DIALOGUE_LOG') = Len(DIALOGUE_LOG) + 1
          /\ DIALOGUE_LOG'[Len(DIALOGUE_LOG')].power = last'.power
          /\ DIALOGUE_LOG'[Len(DIALOGUE_LOG')].type =
                (IF last'.fn = "orders" THEN "orders" ELSE "chat")]_vars

-----------------------------------------------------------------------------
(* Properties of the log records *)

\* the orderable locations whose order was synthesized
FellBack == {l \in SeqToSet(CalledLocs) : OrdersAt(Kept, l) = <<>>}

\* the record carries a fallback flag and it is set
FallbackFlagged(rec) == "fallback_used" \in DOMAIN rec /\ rec.fallback_used

\* C13: the orders record of a call has its fallback flag set exactly when
\* the call synthesized the order of at least one location.
C13_FallbackFlagSet ==
    OrdersReturned =>
        /\ DIALOGUE_LOG # <<>>
        /\ FallbackFlagged(DIALOGUE_LOG[Len(DIALOGUE_LOG)]) <=> (FellBack # {})

\* a number of the response lies in [0,1] (numbers are in tenths)
InUnitInterval(v) == v.k = "num" => (0 <= v.n /\ v.n <= 10)

\* the confidence and every trust value of a meta object lie in [0,1]
MetaClamped(meta) ==
    meta.k = "dict" =>
        /\ InUnitInterval(DictGet(meta, Key("confidence"), JNull))
        /\ \A i \in 1..Len(DictGet(meta, Key("trust"), JDict(<<>>)).items) :
              InUnitInterval(DictGet(meta, Key("trust"), JDict(<<>>)).items[i][2])

\* C14: in every message recorded, the confidence and each trust value the
\* response supplied lie in [0,1]; a number outside is recorded clamped.
C14_MetaClamped ==
    /\ \A i \in 1..Len(DIALOGUE_LOG) :
          DIALOGUE_LOG[i].type = "chat" => MetaClamped(DIALOGUE_LOG[i].meta)
    /\ \A ph \in DOMAIN PHASE_MESSAGES : \A i \in 1..Len(PHASE_MESSAGES[ph]) :
          MetaClamped(PHASE_MESSAGES[ph][i].meta)

-----------------------------------------------------------------------------
(* Properties of main, checked under Spec *)

\* C15: every order string handed to game.set_orders is a legal action of one
\* of the power's orderable locations in the current phase.
C15_SubmittedLegal ==
    \A p \in PowerSet : \A i \in 1..Len(submitted[p]) :
        \E j \in 1..Len(board.locs[p]) :
            \E k \in 1..Len(board.opts[board.locs[p][j]]) :
                submitted[p][i] = board.opts[board.locs[p][j]][k]

\* an order call returned a synthesized hold that is not legal, and the
\* orders set for that power leave it out
C15_Witness ==
    /\ pc \in {"orders", "process"}
    /\ last.fn = "orders" /\ last.outcome = "returned"
    /\ \E i \in 1..Len(last.orders) :
          /\ last.orders[i].words[3] = "H"
          /\ \A k \in 1..Len(board.opts[OrderLoc(last.orders[i])]) :
                board.opts[OrderLoc(last.orders[i])][k] # last.orders[i]
          /\ \A k \in 1..Len(submitted[last.power]) :
                submitted[last.power][k] # last.orders[i]

-----------------------------------------------------------------------------
(* Properties of the message history, checked under SpecPress *)

\* the recipients of a recorded message name the power
Listed(recipients, power) ==
    \/ /\ recipients.k = "list"
       /\ \E i \in 1..Len(recipients.items) : recipients.items[i] = JStr(Key(power))
    \/ recipients = JStr(Key(power))

\* C16: the history in a power's message prompt is made of the messages
\* accepted earlier in the same phase that the power sent or is a listed
\* recipient of, in their order, and of nothing else: no message between
\* others and no message of another phase.
C16_HistoryOwnMessagesOfPhase ==
    [][(pc = "msg" /\ last'.fn = "message") =>
          /\ last'.power = Head(turn_order)
          /\ last'.history =
                SelectSeq(IF phase \in DOMAIN PHASE_MESSAGES
                          THEN PHASE_MESSAGES[phase] ELSE <<>>,
                          LAMBDA m : \/ m.power = Head(turn_order)
                                     \/ Listed(m.recipients, Head(turn_order)))]_vars

\* a power was given an empty history in a phase in which the other power had
\* written to a third name, after a phase in which it was written to itself
C16_Witness ==
    /\ pc \in {"msg", "process"}
    /\ last.fn = "message"
    /\ last.outcome \in {"sent", "silent"}
    /\ last.history = <<>>
    /\ phase \in DOMAIN PHASE_MESSAGES
    /\ \E i \in 1..Len(PHASE_MESSAGES[phase]) :
          /\ PHASE_MESSAGES[phase][i].power # last.power
          /\ ~Listed(PHASE_MESSAGES[phase][i].recipients, last.power)
    /\ \E ph \in DOMAIN PHASE_MESSAGES \ {phase} :
          \E i \in 1..Len(PHASE_MESSAGES[ph]) :
              Listed(PHASE_MESSAGES[ph][i].recipients, last.power)

-----------------------------------------------------------------------------
(* Properties of the order of the calls in one iteration of main's loop *)

\* the places of calls at which main made the call op for the power
CallsOf(op, power) == {i \in 1..Len(calls) : calls[i] = Call(op, power)}

\* the place of an operation in an iteration
Stage(op) ==
    CASE op = "message" -> 1
      [] op = "orders" -> 2
      [] op = "set_orders" -> 2
      [] op = "process" -> 3

\* C17: within an iteration the message requests come first, then the order
\* requests, each followed by set_orders for its power, then game.process and
\* its engine_messages record.  No power is asked twice for the same thing;
\* once an order request is made every power has been asked for its message,
\* and once process is called every power has had its orders requested and set.
C17_IterationOrder ==
    /\ \A i, j \in 1..Len(calls) : i < j => Stage(calls[i].op) <= Stage(calls[j].op)
    /\ \A i, j \in 1..Len(calls) : calls[i] = calls[j] => i = j
    /\ (\E i \in 1..Len(calls) : calls[i].op = "orders") =>
          \A p \in PowerSet : Cardinality(CallsOf("message", p)) = 1
    /\ \A i \in 1..Len(calls) :
          calls[i].op = "set_orders" => (i > 1 /\ calls[i - 1] = Call("orders", calls[i].power))
    /\ \A i \in 1..Len(calls) :
          (calls[i].op = "orders" /\ i < Len(calls)) =>
              calls[i + 1] = Call("set_orders", calls[i].power)
    /\ \A i \in 1..Len(calls) :
          calls[i].op = "process" =>
              /\ i = Len(calls)
              /\ \A p \in PowerSet : /\ Cardinality(CallsOf("orders", p)) = 1
                                     /\ Cardinality(CallsOf("set_orders", p)) = 1
              /\ DIALOGUE_LOG # <<>>
              /\ DIALOGUE_LOG[Len(DIALOGUE_LOG)].type = "engine_messages"
    /\ (pc = "loop" /\ processed > 0) =>
          (calls # <<>> /\ calls[Len(calls)].op = "process")
    /\ pc = "process" =>
          \A p \in PowerSet : Cardinality(CallsOf("set_orders", p)) = 1

\* a second iteration ran to its end, its messages asked in the order opposite
\* to the engine's order of the powers
C17_Witness ==
    /\ pc = "loop"
    /\ processed = 2
    /\ Len(calls) = 3 * Len(Powers) + 1
    /\ calls[1] = Call("message", Powers[Len(Powers)])
    /\ calls[Len(calls)].op = "process"

-----------------------------------------------------------------------------
(* Termination of main, checked under SpecReturns *)

\* C18: when every generator call returns and game.process moves to a later
\* phase, main leaves its loop once the game is done or the year is past
\* MAX_YEAR, asks nothing for a phase past MAX_YEAR, and then writes the game
\* and the dialogue log once.
C18_StopsAndSavesOnce ==
    /\ [](pc \in {"msg", "orders", "process"} => phase.year <= MAX_YEAR)
    /\ [](saved <= 1)
    /\ <>[](pc = "done" /\ saved = 1 /\ (is_game_done \/ phase.year > MAX_YEAR))

\* C18 short of the files: the loop is left, at its head or by an exception,
\* nothing is asked for a phase past MAX_YEAR, and the files are written once
\* when the loop was left at its head
C18_StopsOrRaises ==
    /\ [](pc \in {"msg", "orders", "process"} => phase.year <= MAX_YEAR)
    /\ [](saved <= 1)
    /\ <>[](\/ pc = "crashed" /\ saved = 0
            \/ pc = "done" /\ saved = 1 /\ (is_game_done \/ phase.year > MAX_YEAR))

====
